---- MODULE Spec2Model ----
(***************************************************************************)
(* Content API of the portfolio application: the route handlers of         *)
(* server/routes.ts over the entity store of server/storage.ts and the     *)
(* relational schema (pgTable definitions and createInsertSchema).         *)
(*                                                                         *)
(* A JavaScript object is a function from its keys to values; a key that   *)
(* is undefined (or a column that is NULL) is absent from the DOMAIN.      *)
(* A table is the set of its rows.  One step of a specification is one     *)
(* whole HTTP request: the handler runs from its first line to the         *)
(* response it sends.                                                      *)
(*                                                                         *)
(* "@shared/schema" is the module storage.ts takes the tables projects,    *)
(* skills, categories, blogs, videos and contacts from, so the insert      *)
(* schemas the handlers parse with are the createInsertSchema ones.        *)
(***************************************************************************)
EXTENDS Integers, Sequences, FiniteSets, TLC

VARIABLES projects, skills, categories, blogs, videos, contacts,
          seq,   \* per table, the last value its serial id sequence handed out
          room,  \* the rows that may yet be inserted (the bound of a behaviour)
          now,   \* the server clock (defaultNow(), new Date())
          req,   \* the request handled by the last step
          res,   \* the response to it
          pending, \* the handlers suspended at an await between a read and a write
          uploads, \* the files of the uploads directory
          boot     \* the start-up of the store connection (db.ts)

tables == <<projects, skills, categories, blogs, videos, contacts>>
store  == <<projects, skills, categories, blogs, videos, contacts, seq, room>>
vars   == <<projects, skills, categories, blogs, videos, contacts, seq, room, now, req, res,
           pending, uploads, boot>>

(***************************************************************************)
(* Bounds of the model.                                                    *)
(***************************************************************************)
MaxRows  == 2   \* rows inserted in a behaviour of one resource's handlers
MaxTotal == 1   \* rows inserted in a behaviour of all the handlers together
MaxFeatured == 4 \* rows inserted in a behaviour of the featured list
MaxTime  == 1   \* ticks of the server clock
MaxPending == 2 \* handlers suspended between their read and their write

Kinds == {"project", "skill", "category", "blog", "video", "contact"}

(***************************************************************************)
(* JavaScript objects.                                                     *)
(***************************************************************************)
EmptyObj == [k \in {} |-> 0]
Has(o, k) == k \in DOMAIN o
\* { ...a, ...b }
Spread(a, b) == [k \in DOMAIN a \cup DOMAIN b |-> IF k \in DOMAIN b THEN b[k] ELSE a[k]]
\* the keys of o that are in K (zod's strip of unknown keys, drizzle's column mapping)
Pick(o, K) == [k \in DOMAIN o \cap K |-> o[k]]

(***************************************************************************)
(* Principals.  The session subsystem hands the handlers req.user and      *)
(* req.isAuthenticated().                                                  *)
(***************************************************************************)
Anonymous == [authenticated |-> FALSE, role |-> "none"]
Visitor   == [authenticated |-> TRUE,  role |-> "user"]
Admin     == [authenticated |-> TRUE,  role |-> "admin"]
Principals == {Anonymous, Visitor, Admin}

isAdmin(p) == p.authenticated /\ p.role = "admin"

(***************************************************************************)
(* The relational schema: for each table its columns, the NOT NULL         *)
(* columns, the columns with a default, the UNIQUE columns and the enum    *)
(* columns.                                                                *)
(***************************************************************************)
SkillCategories == {"frontend", "backend", "database", "tools", "cloud"}

projectsTable ==
  [columns  |-> {"id", "title", "description", "imageUrl", "technologies",
                 "projectUrl", "githubUrl", "featured", "authorId", "createdAt"},
   notNull  |-> {"id", "title", "description", "imageUrl", "technologies"},
   defaults |-> {"id", "featured", "createdAt"},
   unique   |-> {"id"},
   enums    |-> {},
   references |-> {}]

skillsTable ==
  [columns  |-> {"id", "name", "percentage", "category", "order"},
   notNull  |-> {"id", "name", "percentage", "category", "order"},
   defaults |-> {"id", "order"},
   unique   |-> {"id"},
   enums    |-> {"category"},
   references |-> {}]

categoriesTable ==
  [columns  |-> {"id", "name", "slug"},
   notNull  |-> {"id", "name", "slug"},
   defaults |-> {"id"},
   unique   |-> {"id", "name", "slug"},
   enums    |-> {},
   references |-> {}]

\* the blogs table without the UNIQUE constraint on slug
blogsTableNoUnique ==
  [columns  |-> {"id", "title", "slug", "content", "excerpt", "imageUrl",
                 "categoryId", "authorId", "published", "createdAt", "updatedAt"},
   notNull  |-> {"id", "title", "slug", "content", "excerpt", "imageUrl"},
   defaults |-> {"id", "published", "createdAt", "updatedAt"},
   unique   |-> {"id"},
   enums    |-> {},
   references |-> {"categoryId"}]
blogsTable ==
  [columns  |-> {"id", "title", "slug", "content", "excerpt", "imageUrl",
                 "categoryId", "authorId", "published", "createdAt", "updatedAt"},
   notNull  |-> {"id", "title", "slug", "content", "excerpt", "imageUrl"},
   defaults |-> {"id", "published", "createdAt", "updatedAt"},
   unique   |-> {"id", "slug"},
   enums    |-> {},
   references |-> {"categoryId"}]

videosTable ==
  [columns  |-> {"id", "title", "videoId", "thumbnailUrl", "views", "publishedAt",
                 "featured", "order"},
   notNull  |-> {"id", "title", "videoId", "thumbnailUrl", "order"},
   defaults |-> {"id", "featured", "order"},
   unique   |-> {"id"},
   enums    |-> {},
   references |-> {}]

contactsTable ==
  [columns  |-> {"id", "name", "email", "subject", "message", "read", "createdAt"},
   notNull  |-> {"id", "name", "email", "subject", "message"},
   defaults |-> {"id", "read", "createdAt"},
   unique   |-> {"id"},
   enums    |-> {},
   references |-> {}]

\* the value a column default yields at time t for the row that gets id i
DefaultsOf(T, i, t) ==
  Pick([id |-> i, featured |-> FALSE, published |-> FALSE, read |-> FALSE,
        order |-> 0, createdAt |-> t, updatedAt |-> t], T.defaults)

\* the values an enum column admits
EnumValues(T, c) == SkillCategories

(***************************************************************************)
(* createInsertSchema(table).omit(...): a column is required when it is    *)
(* NOT NULL and has no default, optional otherwise; an enum column admits  *)
(* its values only; the bounds of a number are not part of the schema.     *)
(***************************************************************************)
createInsertSchema(T, omitted) ==
  [keys     |-> T.columns \ omitted,
   required |-> (T.notNull \ T.defaults) \ omitted,
   enums    |-> T.enums \ omitted,
   table    |-> T]

insertProjectSchema  == createInsertSchema(projectsTable, {"id", "createdAt"})
insertSkillSchema    == createInsertSchema(skillsTable, {"id"})
insertCategorySchema == createInsertSchema(categoriesTable, {"id"})
insertBlogSchema     == createInsertSchema(blogsTable, {"id", "createdAt", "updatedAt"})
insertVideoSchema    == createInsertSchema(videosTable, {"id"})
\* an insert schema that lets the client's read through
insertContactSchemaKeepRead == createInsertSchema(contactsTable, {"id", "createdAt"})
insertContactSchema  == createInsertSchema(contactsTable, {"id", "read", "createdAt"})

\* schema.parse(data): the keys that raise an issue (a ZodError when not empty)
ZodIssues(schema, data) ==
  {k \in schema.required : ~Has(data, k)}
    \cup {k \in schema.enums : Has(data, k) /\ data[k] \notin EnumValues(schema.table, k)}
\* a field of a multipart form is text, which the number of the insert schema
\* refuses for an integer column
TextIssues(schema, body) ==
  {k \in schema.keys \cap {"id", "percentage", "order", "views", "categoryId", "authorId"} :
     Has(body, k)}
\* schema.parse(data) when it does not throw: unknown keys are stripped
Parsed(schema, data) == Pick(data, schema.keys)

(***************************************************************************)
(* The database: insert, update .. where id = .., delete .. where id = ..  *)
(***************************************************************************)
\* a row that breaks no NOT NULL and no enum constraint
WellFormed(T, row) ==
  /\ T.notNull \subseteq DOMAIN row
  /\ \A c \in T.enums : Has(row, c) => row[c] \in EnumValues(T, c)
\* a row whose references (blogs.categoryId) name a stored category
ForeignKeysHold(T, row) ==
  \A c \in T.references : Has(row, c) => \E k \in categories : k.id = row[c]
\* no row of others has row's value in a UNIQUE column
NoDuplicate(T, others, row) ==
  \A c \in T.unique : \A o \in others : ~(Has(row, c) /\ Has(o, c) /\ o[c] = row[c])

\* db.insert(T).values(values).returning()
DbInsert(rows, T, values, i, t) ==
  LET row == Spread(DefaultsOf(T, i, t), Pick(values, T.columns))
  IN  IF WellFormed(T, row) /\ NoDuplicate(T, rows, row) /\ ForeignKeysHold(T, row)
      THEN [threw |-> FALSE, rows |-> rows \cup {row}, ret |-> <<row>>]
      ELSE [threw |-> TRUE,  rows |-> rows, ret |-> <<>>]

\* db.update(T).set(patch).where(eq(T.id, i)).returning()
DbUpdate(rows, T, i, patch) ==
  LET set     == Pick(patch, T.columns)
      matched == {r \in rows : r.id = i}
      others  == rows \ matched
      new(r)  == Spread(r, set)
  IN  IF \/ DOMAIN set = {}                                   \* no values to set
         \/ \E c \in T.enums : Has(set, c) /\ set[c] \notin EnumValues(T, c)
         \/ \E r \in matched : \/ ~WellFormed(T, new(r))
                                \/ ~NoDuplicate(T, others, new(r))
                                \/ ~ForeignKeysHold(T, new(r))
      THEN [threw |-> TRUE, rows |-> rows, ret |-> <<>>]
      ELSE IF matched = {}
      THEN [threw |-> FALSE, rows |-> rows, ret |-> <<>>]
      ELSE LET r == CHOOSE r \in matched : TRUE
           IN  [threw |-> FALSE, rows |-> others \cup {new(r)}, ret |-> <<new(r)>>]

\* db.delete(T).where(eq(T.id, i)).returning()
DbDelete(rows, i) ==
  LET matched == {r \in rows : r.id = i}
  IN  IF matched = {}
      THEN [threw |-> FALSE, rows |-> rows, ret |-> <<>>]
      ELSE [threw |-> FALSE, rows |-> rows \ matched,
            ret |-> <<CHOOSE r \in matched : TRUE>>]

\* db.select().from(T).where(eq(T.id, i)): const [row] = ...
DbSelectById(rows, i) ==
  IF \E r \in rows : r.id = i THEN <<CHOOSE r \in rows : r.id = i>> ELSE <<>>


\* the sort key of a row; text sorts by its place in the collation
Collation == [Ops |-> 1, Web |-> 2]
SortKey(r, column) == IF column = "name" THEN Collation[r.name] ELSE r[column]
\* the sequences that list rows in the order of ORDER BY column (descending
\* when desc); rows with equal keys come in any order
OrderBy(rows, column, desc) ==
  LET n == Cardinality(rows)
  IN  {s \in [1..n -> rows] :
         /\ \A i, j \in 1..n : i # j => s[i] # s[j]
         /\ \A i, j \in 1..n : i < j =>
              IF desc THEN SortKey(s[i], column) >= SortKey(s[j], column)
              ELSE SortKey(s[i], column) <= SortKey(s[j], column)}

(***************************************************************************)
(* Requests and responses.  req and res hold the exchange in progress: a   *)
(* handler step takes the server from idle to the response it sent, and    *)
(* Done ends the exchange.                                                 *)
(***************************************************************************)
NoId    == 0
NoFile  == "none"
NoQuery == "none"

Request(method, path, id, query, body, file, p) ==
  [method |-> method, path |-> path, id |-> id, query |-> query, body |-> body,
   file |-> file, principal |-> p]
NoRequest == Request("NONE", "", NoId, NoQuery, EmptyObj, NoFile, Anonymous)

\* res.status(status).json(...): the message of an error, the rows of a result,
\* the issues of a ZodError; calls counts the entity-store calls the handler made
Reply(status, message, data, errors, calls) ==
  [status |-> status, message |-> message, data |-> data, errors |-> errors,
   calls |-> calls]
NoReply == Reply(0, "", <<>>, {}, 0)

Forbidden         == Reply(403, "Forbidden", <<>>, {}, 0)
handleZodError(e) == Reply(400, "Validation error", <<>>, e, 0)
NotFound(m, n)    == Reply(404, m, <<>>, {}, n)
\* the answer of a handler that made its failed call once more
FailedRetried(m, n) == Reply(500, m, <<>>, {}, n + 1)
Failed(m, n)      == Reply(500, m, <<>>, {}, n)
Json(status, data, n) == Reply(status, "", data, {}, n)

(***************************************************************************)
(* Multipart requests: upload.single("image") stores the file before the   *)
(* handler runs and names it in req.file.                                  *)
(***************************************************************************)
AllowedTypes == {"image/jpeg", "image/jpg", "image/png", "image/webp"}
FileSizeLimit == 5
Files == {NoFile, "a.png", "a.gif", "big.png"}
Mimetype == [f \in Files \ {NoFile} |-> IF f = "a.gif" THEN "image/gif" ELSE "image/png"]
\* the size of a file in megabytes
FileSize == [f \in Files \ {NoFile} |-> IF f = "big.png" THEN FileSizeLimit + 1 ELSE 1]
\* a middleware that lets every file through
uploadAny(file) == "ok"
\* upload.single("image"): the file is written to the uploads directory, or
\* multer hands an error to next() and the handler does not run
upload(file) ==
  IF file = NoFile THEN "ok"
  ELSE IF Mimetype[file] \notin AllowedTypes
       THEN "Invalid file type. Only JPEG, JPG, PNG and WEBP files are allowed."
  ELSE IF FileSize[file] > FileSizeLimit THEN "File too large"
  ELSE "ok"
\* the answer to an error a middleware passed on
UploadRejected(message) == Reply(500, message, <<>>, {}, 0)
\* one reference for every file
UploadUrlShared(file) == <<"/uploads/", "image">>
\* `/uploads/${file.filename}`
UploadUrl(file) == <<"/uploads/", file>>
\* multer.diskStorage: the uploads directory once upload.single("image") has
\* handled the file of a request (a refused file is not kept)
diskStorage(file) ==
  IF file # NoFile /\ upload(file) = "ok" THEN uploads \cup {file} ELSE uploads

\* the process has not exited
Running == boot.state # "exited"
Idle == req = NoRequest /\ Running
\* a request arrives; only the multipart routes, which go through
\* upload.single("image"), carry a file
Receive(method, path, id, query, body, file, p) ==
  /\ Idle
  /\ req' = Request(method, path, id, query, body, file, p)
  /\ pending' = pending
  /\ uploads' = diskStorage(file)
  /\ boot' = boot

\* the ids a request names for table k: those handed out, and one that never was
Ids(k) == 1..(seq[k] + 1)

\* the times the database's clock may show while the server's shows now
DbClock == {t \in {now, now + 1} : t <= MaxTime}

\* the serial sequence of table k after an insert that returned ret
NextSeq(k, ret) == IF ret = <<>> THEN seq ELSE [seq EXCEPT ![k] = @ + 1]
\* the bound on the rows inserted: an insert that returned ret takes one
Room(ret) == ret # <<>> => room > 0
NextRoom(ret) == IF ret = <<>> THEN room ELSE room - 1

(***************************************************************************)
(* storage.ts: skills                                                      *)
(***************************************************************************)
\* the skills by order, the greatest first
getAllSkillsDescending == OrderBy(skills, "order", TRUE)
getAllSkills == OrderBy(skills, "order", FALSE)
getSkillsByCategory(category) == OrderBy({r \in skills : r.category = category}, "order", FALSE)
createSkill(skill) == DbInsert(skills, skillsTable, skill, seq["skill"] + 1, now)
updateSkill(id, skill) == DbUpdate(skills, skillsTable, id, skill)
deleteSkill(id) == DbDelete(skills, id)

(***************************************************************************)
(* routes.ts: skills                                                       *)
(***************************************************************************)
SkillBodies ==
  { [name |-> "Go", percentage |-> 50,  category |-> "backend", order |-> 1],
    [name |-> "Go", percentage |-> 150, category |-> "backend", order |-> 1],
    [name |-> "Go", percentage |-> 50,  category |-> "backend"],
    [name |-> "Go", percentage |-> 50,  category |-> "bogus", order |-> 1],
    [percentage |-> 50, category |-> "backend", order |-> 1],
    [percentage |-> 150],
    [category |-> "bogus"],
    [id |-> 2],
    EmptyObj }

\* app.get("/api/skills")
GetSkills ==
  \E p \in Principals, category \in {NoQuery, "backend", "bogus"} :
    /\ Receive("GET", "/api/skills", NoId, category, EmptyObj, NoFile, p)
    /\ IF category = NoQuery
       THEN \E s \in getAllSkills : res' = Json(200, s, 1)
       ELSE IF category \notin SkillCategories
       THEN res' = Failed("Failed to fetch skills", 1)
       ELSE \E s \in getSkillsByCategory(category) : res' = Json(200, s, 1)
    /\ UNCHANGED <<store, now>>

\* app.post("/api/admin/skills")
PostAdminSkills ==
  \E p \in Principals, body \in SkillBodies :
    /\ Receive("POST", "/api/admin/skills", NoId, NoQuery, body, NoFile, p)
    /\ IF ~isAdmin(p)
       THEN res' = Forbidden /\ UNCHANGED store
       ELSE IF ZodIssues(insertSkillSchema, body) # {}
       THEN res' = handleZodError(ZodIssues(insertSkillSchema, body)) /\ UNCHANGED store
       ELSE LET r == createSkill(Parsed(insertSkillSchema, body))
            IN  /\ Room(r.ret)
                /\ skills' = r.rows
                /\ seq' = NextSeq("skill", r.ret)
                /\ room' = NextRoom(r.ret)
                /\ res' = IF r.threw THEN Failed("Failed to create skill", 1)
                          ELSE Json(201, r.ret, 1)
                /\ UNCHANGED <<projects, categories, blogs, videos, contacts>>
    /\ UNCHANGED now

\* app.put("/api/admin/skills/:id")
PutAdminSkills ==
  \E p \in Principals, id \in Ids("skill"), body \in SkillBodies :
    /\ Receive("PUT", "/api/admin/skills/:id", id, NoQuery, body, NoFile, p)
    /\ IF ~isAdmin(p)
       THEN res' = Forbidden /\ UNCHANGED store
       ELSE LET r == updateSkill(id, body)
            IN  /\ skills' = r.rows
                /\ res' = IF r.threw THEN Failed("Failed to update skill", 1)
                          ELSE IF r.ret = <<>> THEN NotFound("Skill not found", 1)
                          ELSE Json(200, r.ret, 1)
                /\ UNCHANGED <<projects, categories, blogs, videos, contacts, seq, room>>
    /\ UNCHANGED now

\* app.delete("/api/admin/skills/:id")
DeleteAdminSkills ==
  \E p \in Principals, id \in Ids("skill") :
    /\ Receive("DELETE", "/api/admin/skills/:id", id, NoQuery, EmptyObj, NoFile, p)
    /\ IF ~isAdmin(p)
       THEN res' = Forbidden /\ UNCHANGED store
       ELSE LET r == deleteSkill(id)
            IN  /\ skills' = r.rows
                /\ res' = IF r.ret = <<>> THEN NotFound("Skill not found", 1)
                          ELSE Reply(200, "Skill deleted successfully", <<>>, {}, 1)
                /\ UNCHANGED <<projects, categories, blogs, videos, contacts, seq, room>>
    /\ UNCHANGED now

(***************************************************************************)
(* storage.ts: categories                                                  *)
(***************************************************************************)
getAllCategories == OrderBy(categories, "name", FALSE)
createCategory(category) ==
  DbInsert(categories, categoriesTable, category, seq["category"] + 1, now)
updateCategory(id, category) == DbUpdate(categories, categoriesTable, id, category)
\* blogs.categoryId references categories.id (no ON DELETE action): the delete
\* of a category a blog names makes the statement throw
deleteCategory(id) ==
  IF \E b \in blogs : Has(b, "categoryId") /\ b.categoryId = id
  THEN [threw |-> TRUE, rows |-> categories, ret |-> <<>>]
  ELSE DbDelete(categories, id)

(***************************************************************************)
(* routes.ts: categories                                                   *)
(***************************************************************************)
CategoryBodies ==
  { [name |-> "Ops", slug |-> "ops"],
    [name |-> "Web", slug |-> "web"],
    [slug |-> "web"],
    EmptyObj }

\* app.get("/api/categories")
GetCategories ==
  \E p \in Principals :
    /\ Receive("GET", "/api/categories", NoId, NoQuery, EmptyObj, NoFile, p)
    /\ \E s \in getAllCategories : res' = Json(200, s, 1)
    /\ UNCHANGED <<store, now>>

\* app.post("/api/admin/categories")
PostAdminCategories ==
  \E p \in Principals, body \in CategoryBodies :
    /\ Receive("POST", "/api/admin/categories", NoId, NoQuery, body, NoFile, p)
    /\ IF ~isAdmin(p)
       THEN res' = Forbidden /\ UNCHANGED store
       ELSE IF ZodIssues(insertCategorySchema, body) # {}
       THEN res' = handleZodError(ZodIssues(insertCategorySchema, body)) /\ UNCHANGED store
       ELSE LET r == createCategory(Parsed(insertCategorySchema, body))
            IN  /\ Room(r.ret)
                /\ categories' = r.rows
                /\ seq' = NextSeq("category", r.ret)
                /\ room' = NextRoom(r.ret)
                /\ res' = IF r.threw THEN Failed("Failed to create category", 1)
                          ELSE Json(201, r.ret, 1)
                /\ UNCHANGED <<projects, skills, blogs, videos, contacts>>
    /\ UNCHANGED now

\* app.put("/api/admin/categories/:id")
PutAdminCategories ==
  \E p \in Principals, id \in Ids("category"), body \in CategoryBodies :
    /\ Receive("PUT", "/api/admin/categories/:id", id, NoQuery, body, NoFile, p)
    /\ IF ~isAdmin(p)
       THEN res' = Forbidden /\ UNCHANGED store
       ELSE LET r == updateCategory(id, body)
            IN  /\ categories' = r.rows
                /\ res' = IF r.threw THEN Failed("Failed to update category", 1)
                          ELSE IF r.ret = <<>> THEN NotFound("Category not found", 1)
                          ELSE Json(200, r.ret, 1)
                /\ UNCHANGED <<projects, skills, blogs, videos, contacts, seq, room>>
    /\ UNCHANGED now

\* app.delete("/api/admin/categories/:id")
DeleteAdminCategories ==
  \E p \in Principals, id \in Ids("category") :
    /\ Receive("DELETE", "/api/admin/categories/:id", id, NoQuery, EmptyObj, NoFile, p)
    /\ IF ~isAdmin(p)
       THEN res' = Forbidden /\ UNCHANGED store
       ELSE LET r == deleteCategory(id)
            IN  /\ categories' = r.rows
                /\ res' = IF r.threw THEN Failed("Failed to delete category", 1)
                          ELSE IF r.ret = <<>> THEN NotFound("Category not found", 1)
                          ELSE Reply(200, "Category deleted successfully", <<>>, {}, 1)
                /\ UNCHANGED <<projects, skills, blogs, videos, contacts, seq, room>>
    /\ UNCHANGED now

(***************************************************************************)
(* storage.ts: blogs                                                       *)
(***************************************************************************)
\* published is << >> when the argument is undefined, <<flag>> otherwise (the
\* route always passes a boolean)
getAllBlogs(published) ==
  IF published # <<>>
  THEN OrderBy({b \in blogs : Has(b, "published") /\ b.published = published[1]},
               "createdAt", TRUE)
  ELSE OrderBy(blogs, "createdAt", TRUE)
\* .limit(n) of the sequences of a query
Limit(results, n) == {SubSeq(s, 1, IF Len(s) < n THEN Len(s) ELSE n) : s \in results}
FeaturedLimit == 3
\* the published blogs by createdAt descending, without the limit
getFeaturedBlogsNoLimit ==
  OrderBy({b \in blogs : Has(b, "published") /\ b.published}, "createdAt", TRUE)
getFeaturedBlogs ==
  Limit(OrderBy({b \in blogs : Has(b, "published") /\ b.published}, "createdAt", TRUE),
        FeaturedLimit)
getBlog(id) == DbSelectById(blogs, id)
getBlogBySlug(slug) ==
  IF \E b \in blogs : b.slug = slug THEN <<CHOOSE b \in blogs : b.slug = slug>> ELSE <<>>
\* updatedAt is new Date(), read by the server before the statement is sent;
\* createdAt is the column's defaultNow(), read by the database at time t
createBlog(blog, t) ==
  DbInsert(blogs, blogsTable, Spread(blog, [updatedAt |-> now]), seq["blog"] + 1, t)
updateBlog(id, blog) == DbUpdate(blogs, blogsTable, id, Spread(blog, [updatedAt |-> now]))
deleteBlog(id) == DbDelete(blogs, id)

(***************************************************************************)
(* routes.ts: blogs                                                        *)
(***************************************************************************)
BlogBodies ==
  { [title |-> "Post", slug |-> "s1", content |-> "text", excerpt |-> "ex",
     published |-> "true"],
    [title |-> "Post", slug |-> "s2", content |-> "text", excerpt |-> "ex"],
    [title |-> "Post 2"],
    [slug |-> "s1"],
    [categoryId |-> 1],
    EmptyObj }

\* req.user._id of the principal (a row of users has an id and no _id)
AuthorId(p) == IF Has(p, "_id") THEN [authorId |-> p["_id"]] ELSE EmptyObj
\* req.body.flag === "true"
IsTrueText(body, k) == Has(body, k) /\ body[k] = "true"

\* app.get("/api/blogs")
GetBlogs ==
  \E p \in Principals :
    /\ Receive("GET", "/api/blogs", NoId, NoQuery, EmptyObj, NoFile, p)
    /\ LET onlyPublished == ~isAdmin(p)
       IN  \E s \in getAllBlogs(<<onlyPublished>>) : res' = Json(200, s, 1)
    /\ UNCHANGED <<store, now>>

\* a reply that tells an unpublished blog from a missing one
BlogReplyForbidden(p, found) ==
  IF found = <<>> THEN NotFound("Blog post not found", 1)
  ELSE IF ~(Has(found[1], "published") /\ found[1].published) /\ ~isAdmin(p)
       THEN Forbidden
       ELSE Json(200, found, 1)
\* app.get("/api/blogs/featured")
GetFeaturedBlogs ==
  \E p \in Principals, found \in getFeaturedBlogs :
    /\ Receive("GET", "/api/blogs/featured", NoId, NoQuery, EmptyObj, NoFile, p)
    /\ res' = Json(200, found, 1)
    /\ UNCHANGED <<store, now>>

\* the reply of app.get("/api/blogs/:id") and of app.get("/api/blogs/slug/:slug")
\* to principal p, found being what the store returned
BlogReply(p, found) ==
  IF found = <<>> THEN NotFound("Blog post not found", 1)
  ELSE IF ~(Has(found[1], "published") /\ found[1].published) /\ ~isAdmin(p)
       THEN NotFound("Blog post not found", 1)
       ELSE Json(200, found, 1)

\* app.get("/api/blogs/:id")
GetBlogById ==
  \E p \in Principals, id \in Ids("blog") :
    /\ Receive("GET", "/api/blogs/:id", id, NoQuery, EmptyObj, NoFile, p)
    /\ res' = BlogReply(p, getBlog(id))
    /\ UNCHANGED <<store, now>>

\* app.get("/api/blogs/slug/:slug")
GetBlogBySlug ==
  \E p \in Principals, slug \in {"s1", "s2", "s9"} :   \* "s9" is the slug of no blog
    /\ Receive("GET", "/api/blogs/slug/:slug", NoId, slug, EmptyObj, NoFile, p)
    /\ res' = BlogReply(p, getBlogBySlug(slug))
    /\ UNCHANGED <<store, now>>

\* app.post("/api/admin/blogs")
PostAdminBlogsOf(bodies, files) ==
  \E p \in Principals, body \in bodies, file \in files :
    /\ Receive("POST", "/api/admin/blogs", NoId, NoQuery, body, file, p)
    /\ IF upload(file) # "ok"
       THEN res' = UploadRejected(upload(file)) /\ UNCHANGED <<store, now>>
       ELSE IF ~isAdmin(p)
       THEN res' = Forbidden /\ UNCHANGED <<store, now>>
       ELSE IF file = NoFile
       THEN /\ res' = Reply(400, "Image upload is required", <<>>, {}, 0)
            /\ UNCHANGED <<store, now>>
       ELSE LET blogData == Spread(Spread(body, AuthorId(p)),
                                   [imageUrl |-> UploadUrl(file),
                                    published |-> IsTrueText(body, "published")])
                issues == ZodIssues(insertBlogSchema, blogData)
                            \cup TextIssues(insertBlogSchema, body)
            IN  IF issues # {}
                THEN /\ res' = handleZodError(issues)
                     /\ UNCHANGED <<store, now>>
                ELSE \E t \in DbClock :
                     LET r == createBlog(Parsed(insertBlogSchema, blogData), t)
                     IN  /\ Room(r.ret)
                         /\ blogs' = r.rows
                         /\ seq' = NextSeq("blog", r.ret)
                         /\ room' = NextRoom(r.ret)
                         /\ now' = IF r.threw THEN now ELSE t
                         /\ res' = IF r.threw THEN Failed("Failed to create blog post", 1)
                                   ELSE Json(201, r.ret, 1)
                         /\ UNCHANGED <<projects, skills, categories, videos, contacts>>

PostAdminBlogs == PostAdminBlogsOf(BlogBodies, Files)
\* the same handler, tried with the bodies of more blogs than the limit of the
\* featured list and one image
PostAdminBlogsMany ==
  PostAdminBlogsOf(
    { [title |-> "Post", slug |-> sl, content |-> "text", excerpt |-> "ex",
       published |-> "true"] : sl \in {"p1", "p2", "p3", "p4"} }
      \cup {[title |-> "Draft", slug |-> "d1", content |-> "text", excerpt |-> "ex"]},
    {"a.png"})

\* app.put("/api/admin/blogs/:id")
PutAdminBlogs ==
  \E p \in Principals, id \in Ids("blog"), body \in BlogBodies, file \in Files :
    /\ Receive("PUT", "/api/admin/blogs/:id", id, NoQuery, body, file, p)
    /\ IF upload(file) # "ok"
       THEN res' = UploadRejected(upload(file)) /\ UNCHANGED store
       ELSE IF ~isAdmin(p)
       THEN res' = Forbidden /\ UNCHANGED store
       ELSE IF getBlog(id) = <<>>
       THEN res' = NotFound("Blog post not found", 1) /\ UNCHANGED store
       ELSE LET existingBlog == getBlog(id)[1]
                imageUrl == IF file # NoFile THEN UploadUrl(file) ELSE existingBlog.imageUrl
                blogData == Spread(body, [imageUrl |-> imageUrl,
                                          published |-> IsTrueText(body, "published")])
                r == updateBlog(id, blogData)
            IN  /\ blogs' = r.rows
                /\ res' = IF r.threw THEN Failed("Failed to update blog post", 2)
                          ELSE Json(200, r.ret, 2)
                /\ UNCHANGED <<projects, skills, categories, videos, contacts, seq, room>>
    /\ UNCHANGED now

\* app.delete("/api/admin/blogs/:id")
DeleteAdminBlogs ==
  \E p \in Principals, id \in Ids("blog") :
    /\ Receive("DELETE", "/api/admin/blogs/:id", id, NoQuery, EmptyObj, NoFile, p)
    /\ IF ~isAdmin(p)
       THEN res' = Forbidden /\ UNCHANGED store
       ELSE LET r == deleteBlog(id)
            IN  /\ blogs' = r.rows
                /\ res' = IF r.ret = <<>> THEN NotFound("Blog post not found", 1)
                          ELSE Reply(200, "Blog post deleted successfully", <<>>, {}, 1)
                /\ UNCHANGED <<projects, skills, categories, videos, contacts, seq, room>>
    /\ UNCHANGED now

(***************************************************************************)
(* storage.ts: projects                                                    *)
(***************************************************************************)
getAllProjects == OrderBy(projects, "createdAt", TRUE)
getFeaturedProjects ==
  OrderBy({r \in projects : Has(r, "featured") /\ r.featured}, "createdAt", TRUE)
getProject(id) == DbSelectById(projects, id)
createProject(project) ==
  DbInsert(projects, projectsTable, project, seq["project"] + 1, now)
updateProject(id, project) == DbUpdate(projects, projectsTable, id, project)
deleteProject(id) == DbDelete(projects, id)

(***************************************************************************)
(* routes.ts: projects                                                     *)
(***************************************************************************)
ProjectBodies ==
  { [title |-> "Site", description |-> "about", technologies |-> "[\"ts\"]",
     featured |-> "true"],
    [title |-> "Site", description |-> "about"],
    [title |-> "Site 2"],
    EmptyObj }

\* JSON.parse of the technologies field
JSONparse(text) == IF text = "[\"ts\"]" THEN <<"ts">> ELSE <<>>

\* app.get("/api/projects")
GetProjects ==
  \E p \in Principals, featured \in {NoQuery, "true"} :
    /\ Receive("GET", "/api/projects", NoId, featured, EmptyObj, NoFile, p)
    /\ IF featured = "true"
       THEN \E s \in getFeaturedProjects : res' = Json(200, s, 1)
       ELSE \E s \in getAllProjects : res' = Json(200, s, 1)
    /\ UNCHANGED <<store, now>>

\* app.get("/api/projects/:id")
GetProjectById ==
  \E p \in Principals, id \in Ids("project") :
    /\ Receive("GET", "/api/projects/:id", id, NoQuery, EmptyObj, NoFile, p)
    /\ res' = IF getProject(id) = <<>> THEN NotFound("Project not found", 1)
              ELSE Json(200, getProject(id), 1)
    /\ UNCHANGED <<store, now>>

\* app.post("/api/admin/projects")
PostAdminProjects ==
  \E p \in Principals, body \in ProjectBodies, file \in Files :
    /\ Receive("POST", "/api/admin/projects", NoId, NoQuery, body, file, p)
    /\ IF upload(file) # "ok"
       THEN res' = UploadRejected(upload(file)) /\ UNCHANGED store
       ELSE IF ~isAdmin(p)
       THEN res' = Forbidden /\ UNCHANGED store
       ELSE IF file = NoFile
       THEN res' = Reply(400, "Image upload is required", <<>>, {}, 0) /\ UNCHANGED store
       ELSE LET technologies == IF Has(body, "technologies")
                                THEN JSONparse(body.technologies) ELSE <<>>
                projectData == Spread(Spread(body, AuthorId(p)),
                                      [technologies |-> technologies,
                                       imageUrl |-> UploadUrl(file),
                                       featured |-> IsTrueText(body, "featured")])
            IN  IF ZodIssues(insertProjectSchema, projectData) # {}
                THEN /\ res' = handleZodError(ZodIssues(insertProjectSchema, projectData))
                     /\ UNCHANGED store
                ELSE LET r == createProject(Parsed(insertProjectSchema, projectData))
                     IN  /\ Room(r.ret)
                         /\ projects' = r.rows
                         /\ seq' = NextSeq("project", r.ret)
                         /\ room' = NextRoom(r.ret)
                         /\ res' = IF r.threw THEN Failed("Failed to create project", 1)
                                   ELSE Json(201, r.ret, 1)
                         /\ UNCHANGED <<skills, categories, blogs, videos, contacts>>
    /\ UNCHANGED now

\* the projectData of app.put("/api/admin/projects/:id")
PutProjectData(existingProject, body, file) ==
  LET imageUrl == IF file # NoFile THEN UploadUrl(file)
                  ELSE existingProject.imageUrl
      technologies == IF Has(body, "technologies")
                      THEN JSONparse(body.technologies)
                      ELSE existingProject.technologies
  IN  Spread(body, [technologies |-> technologies,
                    imageUrl |-> imageUrl,
                    featured |-> IsTrueText(body, "featured")])

\* app.put("/api/admin/projects/:id")
PutAdminProjects ==
  \E p \in Principals, id \in Ids("project"), body \in ProjectBodies, file \in Files :
    /\ Receive("PUT", "/api/admin/projects/:id", id, NoQuery, body, file, p)
    /\ IF upload(file) # "ok"
       THEN res' = UploadRejected(upload(file)) /\ UNCHANGED store
       ELSE IF ~isAdmin(p)
       THEN res' = Forbidden /\ UNCHANGED store
       ELSE IF getProject(id) = <<>>
       THEN res' = NotFound("Project not found", 1) /\ UNCHANGED store
       ELSE LET r == updateProject(id, PutProjectData(getProject(id)[1], body, file))
            IN  /\ projects' = r.rows
                /\ res' = IF r.threw THEN Failed("Failed to update project", 2)
                          ELSE Json(200, r.ret, 2)
                /\ UNCHANGED <<skills, categories, blogs, videos, contacts, seq, room>>
    /\ UNCHANGED now

\* pending holds, for a handler suspended after its read, its request and the
\* row it read; and a history the code does not keep: the number of writes made
\* to that row since (counted up to two) and the first of them, with whether
\* its handler had read the same row and written before any other.
\* The suspended handlers after entry e wrote the row it names:
Resumed(e, wrote) ==
  {IF wrote /\ x.req.path = e.req.path /\ x.req.id = e.req.id
   THEN [x EXCEPT !.writes = IF @ < 2 THEN @ + 1 ELSE @,
                  !.first = IF x.writes = 0
                            THEN <<[body |-> e.req.body, file |-> e.req.file,
                                    alike |-> e.existing = x.existing /\ e.writes = 0]>>
                            ELSE @]
   ELSE x : x \in pending \ {e}}

\* app.put("/api/admin/projects/:id") up to `await storage.getProject(id)`,
\* other requests being served before it resumes
PutAdminProjectsRead ==
  \E p \in Principals, id \in Ids("project"),
     body \in { [title |-> "Site", description |-> "about",
                 technologies |-> "[\"ts\"]", featured |-> "true"],
               [title |-> "Site 2"] },
     file \in {NoFile, "a.gif"} :
    LET request == Request("PUT", "/api/admin/projects/:id", id, NoQuery, body, file, p)
    IN  /\ Idle
        /\ Cardinality(pending) < MaxPending
        /\ uploads' = diskStorage(file)
        /\ boot' = boot
        /\ IF upload(file) # "ok"
           THEN req' = request /\ res' = UploadRejected(upload(file)) /\ pending' = pending
           ELSE IF ~isAdmin(p)
           THEN req' = request /\ res' = Forbidden /\ pending' = pending
           ELSE IF getProject(id) = <<>>
           THEN req' = request /\ res' = NotFound("Project not found", 1)
                /\ pending' = pending
           ELSE /\ pending' = pending \cup {[req |-> request,
                                              existing |-> getProject(id)[1],
                                              writes |-> 0, first |-> <<>>]}
                /\ UNCHANGED <<req, res>>
        /\ UNCHANGED <<store, now>>

\* the same handler from `await storage.updateProject(id, projectData)` on
PutAdminProjectsWrite ==
  \E e \in pending :
    /\ Idle
    /\ e.req.path = "/api/admin/projects/:id"
    /\ LET r == updateProject(e.req.id, PutProjectData(e.existing, e.req.body, e.req.file))
       IN  /\ projects' = r.rows
           /\ req' = e.req
           /\ res' = IF r.threw THEN Failed("Failed to update project", 2)
                     ELSE Json(200, r.ret, 2)
           /\ pending' = Resumed(e, r.ret # <<>>)
    /\ UNCHANGED <<skills, categories, blogs, videos, contacts, seq, room, now, uploads,
                   boot>>

\* app.delete("/api/admin/projects/:id")
DeleteAdminProjects ==
  \E p \in Principals, id \in Ids("project") :
    /\ Receive("DELETE", "/api/admin/projects/:id", id, NoQuery, EmptyObj, NoFile, p)
    /\ IF ~isAdmin(p)
       THEN res' = Forbidden /\ UNCHANGED store
       ELSE LET r == deleteProject(id)
            IN  /\ projects' = r.rows
                /\ res' = IF r.ret = <<>> THEN NotFound("Project not found", 1)
                          ELSE Reply(200, "Project deleted successfully", <<>>, {}, 1)
                /\ UNCHANGED <<skills, categories, blogs, videos, contacts, seq, room>>
    /\ UNCHANGED now

(***************************************************************************)
(* storage.ts: videos                                                      *)
(***************************************************************************)
getAllVideos == OrderBy(videos, "order", FALSE)
\* the videos by order, featured or not
getFeaturedVideosUnfiltered == OrderBy(videos, "order", FALSE)
getFeaturedVideos ==
  OrderBy({r \in videos : Has(r, "featured") /\ r.featured}, "order", FALSE)
getVideo(id) == DbSelectById(videos, id)
createVideo(video) == DbInsert(videos, videosTable, video, seq["video"] + 1, now)
updateVideo(id, video) == DbUpdate(videos, videosTable, id, video)
deleteVideo(id) == DbDelete(videos, id)

(***************************************************************************)
(* routes.ts: videos                                                       *)
(***************************************************************************)
VideoBodies ==
  { [title |-> "Talk", videoId |-> "abc", featured |-> "true", views |-> 10,
     order |-> 1],
    [title |-> "Talk", thumbnailUrl |-> <<"https://cdn/", "t.jpg">>],
    [title |-> "Talk 2", videoId |-> "xyz"],
    [videoId |-> "xyz"],
    [views |-> 0],
    EmptyObj }

\* `https://img.youtube.com/vi/${videoId}/mqdefault.jpg`
YouTubeThumbnail(videoId) == <<"https://img.youtube.com/vi/", videoId, "/mqdefault.jpg">>
\* parseInt of a whole number
parseInt(n) == n

\* app.get("/api/videos")
GetVideos ==
  \E p \in Principals, featured \in {NoQuery, "true"} :
    /\ Receive("GET", "/api/videos", NoId, featured, EmptyObj, NoFile, p)
    /\ IF featured = "true"
       THEN \E s \in getFeaturedVideos : res' = Json(200, s, 1)
       ELSE \E s \in getAllVideos : res' = Json(200, s, 1)
    /\ UNCHANGED <<store, now>>

\* app.post("/api/admin/videos")
PostAdminVideos ==
  \E p \in Principals, body \in VideoBodies :
    /\ Receive("POST", "/api/admin/videos", NoId, NoQuery, body, NoFile, p)
    /\ IF ~isAdmin(p)
       THEN res' = Forbidden /\ UNCHANGED store
       ELSE LET thumbnailUrl ==
                  IF Has(body, "thumbnailUrl") THEN [thumbnailUrl |-> body.thumbnailUrl]
                  ELSE IF Has(body, "videoId")
                       THEN [thumbnailUrl |-> YouTubeThumbnail(body.videoId)]
                       ELSE EmptyObj
                videoData ==
                  Spread(Spread([k \in DOMAIN body \ {"thumbnailUrl"} |-> body[k]],
                                thumbnailUrl),
                         [featured |-> IsTrueText(body, "featured"),
                          views |-> IF Has(body, "views") /\ body.views # 0
                                    THEN parseInt(body.views) ELSE 0])
            IN  IF ZodIssues(insertVideoSchema, videoData) # {}
                THEN /\ res' = handleZodError(ZodIssues(insertVideoSchema, videoData))
                     /\ UNCHANGED store
                ELSE LET r == createVideo(Parsed(insertVideoSchema, videoData))
                     IN  /\ Room(r.ret)
                         /\ videos' = r.rows
                         /\ seq' = NextSeq("video", r.ret)
                         /\ room' = NextRoom(r.ret)
                         /\ res' = IF r.threw THEN Failed("Failed to create video", 1)
                                   ELSE Json(201, r.ret, 1)
                         /\ UNCHANGED <<projects, skills, categories, blogs, contacts>>
    /\ UNCHANGED now

\* app.put("/api/admin/videos/:id")
PutAdminVideos ==
  \E p \in Principals, id \in Ids("video"), body \in VideoBodies :
    /\ Receive("PUT", "/api/admin/videos/:id", id, NoQuery, body, NoFile, p)
    /\ IF ~isAdmin(p)
       THEN res' = Forbidden /\ UNCHANGED store
       ELSE IF getVideo(id) = <<>>
       THEN res' = NotFound("Video not found", 1) /\ UNCHANGED store
       ELSE LET existingVideo == getVideo(id)[1]
                thumbnailUrl ==
                  IF Has(body, "videoId") /\ body.videoId # existingVideo.videoId
                     /\ ~Has(body, "thumbnailUrl")
                  THEN YouTubeThumbnail(body.videoId)
                  ELSE IF Has(body, "thumbnailUrl") THEN body.thumbnailUrl
                       ELSE existingVideo.thumbnailUrl
                views == IF Has(body, "views") /\ body.views # 0
                         THEN [views |-> parseInt(body.views)]
                         ELSE Pick(existingVideo, {"views"})
                videoData ==
                  Spread(Spread([k \in DOMAIN body \ {"views"} |-> body[k]], views),
                         [thumbnailUrl |-> thumbnailUrl,
                          featured |-> IsTrueText(body, "featured")])
                r == updateVideo(id, videoData)
            IN  /\ videos' = r.rows
                /\ res' = IF r.threw THEN Failed("Failed to update video", 2)
                          ELSE Json(200, r.ret, 2)
                /\ UNCHANGED <<projects, skills, categories, blogs, contacts, seq, room>>
    /\ UNCHANGED now

\* app.delete("/api/admin/videos/:id")
DeleteAdminVideos ==
  \E p \in Principals, id \in Ids("video") :
    /\ Receive("DELETE", "/api/admin/videos/:id", id, NoQuery, EmptyObj, NoFile, p)
    /\ IF ~isAdmin(p)
       THEN res' = Forbidden /\ UNCHANGED store
       ELSE LET r == deleteVideo(id)
            IN  /\ videos' = r.rows
                /\ res' = IF r.ret = <<>> THEN NotFound("Video not found", 1)
                          ELSE Reply(200, "Video deleted successfully", <<>>, {}, 1)
                /\ UNCHANGED <<projects, skills, categories, blogs, contacts, seq, room>>
    /\ UNCHANGED now

(***************************************************************************)
(* storage.ts: contacts                                                    *)
(***************************************************************************)
getAllContacts == OrderBy(contacts, "createdAt", TRUE)
\* the contacts by createdAt descending, read or not
getUnreadContactsUnfiltered == OrderBy(contacts, "createdAt", TRUE)
getUnreadContacts ==
  OrderBy({r \in contacts : Has(r, "read") /\ ~r.read}, "createdAt", TRUE)
getContact(id) == DbSelectById(contacts, id)
createContact(contact) ==
  DbInsert(contacts, contactsTable, contact, seq["contact"] + 1, now)
\* an update that flips the flag instead of setting it
markContactAsReadToggle(id) ==
  DbUpdate(contacts, contactsTable, id,
           [read |-> ~(\E c \in contacts : c.id = id /\ Has(c, "read") /\ c.read)])
markContactAsRead(id) == DbUpdate(contacts, contactsTable, id, [read |-> TRUE])
deleteContact(id) == DbDelete(contacts, id)

(***************************************************************************)
(* routes.ts: contacts                                                     *)
(***************************************************************************)
ContactBodies ==
  { [name |-> "Ann", email |-> "a@x.com", subject |-> "Hi",
     message |-> "Hello there, 10+ chars"],
    [name |-> "Ann", email |-> "a@x.com", subject |-> "Hi",
     message |-> "Hello there, 10+ chars", read |-> TRUE],
    [name |-> "Ann"],
    EmptyObj }

\* app.get("/api/admin/contacts")
GetAdminContacts ==
  \E p \in Principals, unread \in {NoQuery, "true"} :
    /\ Receive("GET", "/api/admin/contacts", NoId, unread, EmptyObj, NoFile, p)
    /\ IF ~isAdmin(p)
       THEN res' = Forbidden
       ELSE IF unread = "true"
       THEN \E s \in getUnreadContacts : res' = Json(200, s, 1)
       ELSE \E s \in getAllContacts : res' = Json(200, s, 1)
    /\ UNCHANGED <<store, now>>

\* app.get("/api/admin/contacts/:id")
GetAdminContactById ==
  \E p \in Principals, id \in Ids("contact") :
    /\ Receive("GET", "/api/admin/contacts/:id", id, NoQuery, EmptyObj, NoFile, p)
    /\ res' = IF ~isAdmin(p) THEN Forbidden
              ELSE IF getContact(id) = <<>> THEN NotFound("Contact not found", 1)
              ELSE Json(200, getContact(id), 1)
    /\ UNCHANGED <<store, now>>

\* the path app.post registers for the creation of a contact
ContactsRoute == "/api/contacts"
\* the handler of app.post("/api/contacts") on req.body
PostContactsHandler(body) ==
  IF ZodIssues(insertContactSchema, body) # {}
  THEN res' = handleZodError(ZodIssues(insertContactSchema, body)) /\ UNCHANGED store
  ELSE LET r == createContact(Parsed(insertContactSchema, body))
       IN  /\ Room(r.ret)
           /\ contacts' = r.rows
           /\ seq' = NextSeq("contact", r.ret)
           /\ room' = NextRoom(r.ret)
           /\ res' = IF r.threw THEN Failed("Failed to submit contact form", 1)
                     ELSE Json(201, r.ret, 1)
           /\ UNCHANGED <<projects, skills, categories, blogs, videos>>

\* app.post("/api/contacts")
PostContacts ==
  \E p \in Principals, body \in ContactBodies :
    /\ Receive("POST", ContactsRoute, NoId, NoQuery, body, NoFile, p)
    /\ PostContactsHandler(body)
    /\ UNCHANGED now

\* HomePage: the path onSubmit posts the form to, and values of the form that
\* pass contactFormSchema
FormPath == "/api/contact"
FormValues ==
  { [name |-> "Ann", email |-> "a@x.com", subject |-> "Hello",
     message |-> "Hello there, 10+ chars"] }

\* HomePage.onSubmit: apiRequest('POST', '/api/contact', data), served by the
\* handler registered for that path if there is one; a request that matches no
\* registered route gets the 404 of Express, or the page a catch-all of the
\* host application serves
HomePageOnSubmit ==
  \E p \in Principals, data \in FormValues :
    /\ Receive("POST", FormPath, NoId, NoQuery, data, NoFile, p)
    /\ IF FormPath = ContactsRoute
       THEN PostContactsHandler(data)
       ELSE /\ \E reply \in { Reply(404, "Cannot POST", <<>>, {}, 0),
                               Reply(200, "index.html", <<>>, {}, 0) } : res' = reply
            /\ UNCHANGED store
    /\ UNCHANGED now

\* app.put("/api/admin/contacts/:id/read")
PutAdminContactRead ==
  \E p \in Principals, id \in Ids("contact"), body \in {EmptyObj, [read |-> FALSE]} :
    /\ Receive("PUT", "/api/admin/contacts/:id/read", id, NoQuery, body, NoFile, p)
    /\ IF ~isAdmin(p)
       THEN res' = Forbidden /\ UNCHANGED store
       ELSE LET r == markContactAsRead(id)
            IN  /\ contacts' = r.rows
                /\ res' = IF r.threw THEN Failed("Failed to mark contact as read", 1)
                          ELSE IF r.ret = <<>> THEN NotFound("Contact not found", 1)
                          ELSE Json(200, r.ret, 1)
                /\ UNCHANGED <<projects, skills, categories, blogs, videos, seq, room>>
    /\ UNCHANGED now

\* app.delete("/api/admin/contacts/:id")
DeleteAdminContacts ==
  \E p \in Principals, id \in Ids("contact") :
    /\ Receive("DELETE", "/api/admin/contacts/:id", id, NoQuery, EmptyObj, NoFile, p)
    /\ IF ~isAdmin(p)
       THEN res' = Forbidden /\ UNCHANGED store
       ELSE LET r == deleteContact(id)
            IN  /\ contacts' = r.rows
                /\ res' = IF r.ret = <<>> THEN NotFound("Contact not found", 1)
                          ELSE Reply(200, "Contact deleted successfully", <<>>, {}, 1)
                /\ UNCHANGED <<projects, skills, categories, blogs, videos, seq, room>>
    /\ UNCHANGED now

\*--SPECS--
(***************************************************************************)
(* The state after construction, and the specifications.                   *)
(***************************************************************************)
Empty ==
  /\ projects = {} /\ skills = {} /\ categories = {}
  /\ blogs = {} /\ videos = {} /\ contacts = {}
  /\ seq = [k \in Kinds |-> 0]
  /\ req = NoRequest
  /\ res = NoReply
  /\ pending = {}
  /\ uploads = {}
  /\ boot = [state |-> "connecting", attempts |-> 1, timer |-> 0, code |-> 0]
Init         == Empty /\ now = 0 /\ room = MaxTotal
\* the handlers of one resource, the clock at the last time of the bound
InitResource == Empty /\ now = MaxTime /\ room = MaxRows
\* the handlers of one resource and a clock that advances
InitClock    == Empty /\ now = 0 /\ room = MaxRows

\* the response is sent and the exchange ends
Done ==
  /\ req # NoRequest /\ Running
  /\ req' = NoRequest /\ res' = NoReply
  /\ UNCHANGED <<store, now, pending, uploads, boot>>

\* the server clock advances
Tick == Idle /\ now < MaxTime /\ now' = now + 1 /\ UNCHANGED <<store, req, res, pending, uploads, boot>>

(***************************************************************************)
(* db.ts: the connection to the store is opened when the module is loaded, *)
(* while the server takes requests.                                        *)
(***************************************************************************)
RetryDelay == 5   \* seconds of the setTimeout before the retry
served == <<store, now, req, res, pending, uploads>>

\* .then of either mongoose.connect: the connection is open
Connected ==
  /\ boot.state = "connecting"
  /\ boot' = [boot EXCEPT !.state = "connected"]
  /\ UNCHANGED served
\* a first failure that ends the process
ConnectionErrorExits ==
  /\ boot.state = "connecting" /\ boot.attempts = 1
  /\ boot' = [boot EXCEPT !.state = "exited", !.code = 1]
  /\ UNCHANGED served
\* .catch of the first mongoose.connect: setTimeout(retry, 5000)
ConnectionError ==
  /\ boot.state = "connecting" /\ boot.attempts = 1
  /\ boot' = [boot EXCEPT !.state = "waiting", !.timer = RetryDelay]
  /\ UNCHANGED served
\* a second of the timer passes
TimerSecond ==
  /\ boot.state = "waiting" /\ boot.timer > 0
  /\ boot' = [boot EXCEPT !.timer = @ - 1]
  /\ UNCHANGED served
\* the callback of setTimeout: the second mongoose.connect
Retry ==
  /\ boot.state = "waiting" /\ boot.timer = 0
  /\ boot' = [boot EXCEPT !.state = "connecting", !.attempts = @ + 1]
  /\ UNCHANGED served
\* .catch of the second mongoose.connect: process.exit(1)
RetryFailed ==
  /\ boot.state = "connecting" /\ boot.attempts = 2
  /\ boot' = [boot EXCEPT !.state = "exited", !.code = 1]
  /\ UNCHANGED served

\* the start-up and the contacts endpoints; a pending timer fires while the
\* process runs
NextBoot ==
  \/ Connected \/ ConnectionError \/ TimerSecond \/ Retry \/ RetryFailed
  \/ PostContacts \/ GetAdminContacts \/ PutAdminContactRead \/ Done
SpecBoot ==
  Init /\ [][NextBoot]_vars /\ WF_vars(TimerSecond) /\ WF_vars(Retry)

\* the handlers of one resource
NextSkills == GetSkills \/ PostAdminSkills \/ PutAdminSkills \/ DeleteAdminSkills \/ Done
SpecSkills == InitResource /\ [][NextSkills]_vars

NextBlogs ==
  \/ GetCategories \/ PostAdminCategories \/ PutAdminCategories \/ DeleteAdminCategories
  \/ GetBlogs \/ GetFeaturedBlogs \/ GetBlogById \/ GetBlogBySlug
  \/ PostAdminBlogs \/ PutAdminBlogs \/ DeleteAdminBlogs
  \/ Done
SpecBlogs == InitResource /\ [][NextBlogs]_vars

NextVideos ==
  GetVideos \/ PostAdminVideos \/ PutAdminVideos \/ DeleteAdminVideos \/ Done
SpecVideos == InitResource /\ [][NextVideos]_vars

NextContacts ==
  \/ GetAdminContacts \/ GetAdminContactById \/ PostContacts
  \/ PutAdminContactRead \/ DeleteAdminContacts
  \/ Tick \/ Done
SpecContacts == InitClock /\ [][NextContacts]_vars

\* every stored row is one of rows: a behaviour of the lists fills one
\* collection, each getAll reading no table but its own
OneCollection(rows) ==
  Cardinality(projects) + Cardinality(skills) + Cardinality(categories)
    + Cardinality(blogs) + Cardinality(videos) + Cardinality(contacts)
    = Cardinality(rows)

\* the creation and the listing of every resource, and the clock
NextLists ==
  \/ (OneCollection(projects) /\ PostAdminProjects)
  \/ (OneCollection(skills) /\ PostAdminSkills)
  \/ (OneCollection(categories) /\ PostAdminCategories)
  \/ (OneCollection(blogs) /\ PostAdminBlogs)
  \/ (OneCollection(videos) /\ PostAdminVideos)
  \/ (OneCollection(contacts) /\ PostContacts)
  \/ GetProjects \/ GetSkills \/ GetCategories \/ GetVideos
  \/ GetAdminContacts
  \/ Tick \/ Done
SpecLists == InitClock /\ [][NextLists]_vars

\* the updates of projects with other requests served between their read and
\* their write
NextConcurrent ==
  \/ PostAdminProjects \/ PutAdminProjectsRead \/ PutAdminProjectsWrite \/ Done
SpecConcurrent == Init /\ [][NextConcurrent]_vars

\* the handlers of projects and of videos, a behaviour filling one of the two
NextViews ==
  \/ GetProjects \/ GetProjectById
  \/ (OneCollection(projects) /\ PostAdminProjects)
  \/ PutAdminProjects \/ DeleteAdminProjects
  \/ GetVideos
  \/ (OneCollection(videos) /\ PostAdminVideos)
  \/ PutAdminVideos \/ DeleteAdminVideos
  \/ Done
SpecViews == InitResource /\ [][NextViews]_vars

\* the same with the deletes of projects
NextRace ==
  \/ PostAdminProjects \/ PutAdminProjectsRead \/ PutAdminProjectsWrite
  \/ DeleteAdminProjects \/ Done
SpecRace == Init /\ [][NextRace]_vars

\* the contact form of the home page and the contacts endpoints
NextForm ==
  \/ HomePageOnSubmit \/ PostContacts \/ GetAdminContacts \/ DeleteAdminContacts
  \/ Tick \/ Done
SpecForm == InitClock /\ [][NextForm]_vars

\* the handlers behind upload.single("image")
NextUploads ==
  \/ PostAdminProjects \/ PutAdminProjects \/ PostAdminBlogs \/ PutAdminBlogs
  \/ Done
SpecUploads == InitResource /\ [][NextUploads]_vars

\* the featured list over more blogs than its limit
NextFeatured == PostAdminBlogsMany \/ GetFeaturedBlogs \/ Done
InitFeatured == Empty /\ now = 0 /\ room = MaxFeatured
SpecFeatured == InitFeatured /\ [][NextFeatured]_vars

\* the writes of blogs and the clock
NextBlogClock == PostAdminBlogs \/ PutAdminBlogs \/ DeleteAdminBlogs \/ Tick \/ Done
SpecBlogClock == InitClock /\ [][NextBlogClock]_vars

\* every handler of the API (the clock stands still: no handler of a table
\* without timestamps reads it)
Next ==
  \/ GetProjects \/ GetProjectById
  \/ PostAdminProjects \/ PutAdminProjects \/ DeleteAdminProjects
  \/ GetSkills \/ PostAdminSkills \/ PutAdminSkills \/ DeleteAdminSkills
  \/ GetCategories \/ PostAdminCategories \/ PutAdminCategories \/ DeleteAdminCategories
  \/ GetBlogs \/ GetFeaturedBlogs \/ GetBlogById \/ GetBlogBySlug
  \/ PostAdminBlogs \/ PutAdminBlogs \/ DeleteAdminBlogs
  \/ GetVideos \/ PostAdminVideos \/ PutAdminVideos \/ DeleteAdminVideos
  \/ GetAdminContacts \/ GetAdminContactById \/ PostContacts
  \/ PutAdminContactRead \/ DeleteAdminContacts
  \/ Done
Spec == Init /\ [][Next]_vars

(***************************************************************************)
(* The claims.                                                             *)
(***************************************************************************)
AdminPaths ==
  {"/api/admin/projects", "/api/admin/projects/:id",
   "/api/admin/skills", "/api/admin/skills/:id",
   "/api/admin/categories", "/api/admin/categories/:id",
   "/api/admin/blogs", "/api/admin/blogs/:id",
   "/api/admin/videos", "/api/admin/videos/:id",
   "/api/admin/contacts", "/api/admin/contacts/:id", "/api/admin/contacts/:id/read"}
NonAdmin(p) == ~p.authenticated \/ p.role # "admin"
\* the row of a table with id i exists
Exists(rows, i) == \E r \in rows : r.id = i
RowOf(rows, i) == CHOOSE r \in rows : r.id = i

\* C1: a request to a handler under /api/admin/ by a principal that is not
\* authenticated, or whose role is not "admin", is answered 403 "Forbidden",
\* makes no entity-store call and leaves every collection as it was.
C1_AdminGate ==
  [][(req'.path \in AdminPaths /\ NonAdmin(req'.principal))
        => /\ res'.status = 403 /\ res'.message = "Forbidden"
           /\ res'.calls = 0 /\ res'.data = <<>>
           /\ tables' = tables /\ seq' = seq]_vars

Published(b) == Has(b, "published") /\ b.published
Range(f) == {f[i] : i \in DOMAIN f}
BlogNotFound(r) == r.status = 404 /\ r.message = "Blog post not found" /\ r.data = <<>>

\* C2: a GET of a blog by id or by slug, by a caller who is not an admin, that
\* targets a blog with published = false is answered 404 "Blog post not found"
\* without the record: the answer a blog that does not exist gets.
C2_UnpublishedHidden ==
  /\ \A p \in Principals : \A b \in blogs :
       (NonAdmin(p) /\ ~Published(b)) =>
          /\ BlogNotFound(BlogReply(p, getBlog(b.id)))
          /\ BlogNotFound(BlogReply(p, getBlogBySlug(b.slug)))
          /\ BlogReply(p, getBlog(b.id)).message
               = BlogReply(p, getBlog(seq["blog"] + 1)).message
          /\ BlogReply(p, getBlogBySlug(b.slug)).status
               = BlogReply(p, getBlogBySlug("s9")).status
  /\ (/\ req.method = "GET" /\ req.path = "/api/blogs/:id" /\ NonAdmin(req.principal)
      /\ \E b \in blogs : b.id = req.id /\ ~Published(b))
       => BlogNotFound(res)
  /\ (/\ req.method = "GET" /\ req.path = "/api/blogs/slug/:slug"
      /\ NonAdmin(req.principal)
      /\ \E b \in blogs : b.slug = req.query /\ ~Published(b))
       => BlogNotFound(res)

\* C2 witness: an anonymous caller fetched an unpublished blog by its slug and
\* got 404 while the blog is in the store.
C2_Witness ==
  /\ req.method = "GET" /\ req.path = "/api/blogs/slug/:slug"
  /\ req.principal = Anonymous
  /\ \E b \in blogs : b.slug = req.query /\ ~Published(b)
  /\ res.status = 404

\* C3: GET /api/blogs returns exactly the published blogs to a caller who is
\* not an admin, and every blog to an admin.
C3_BlogList ==
  (req.method = "GET" /\ req.path = "/api/blogs") =>
     /\ res.status = 200
     /\ Range(res.data) = IF NonAdmin(req.principal)
                          THEN {b \in blogs : Published(b)}
                          ELSE blogs

\* C4: no two blogs share a slug and no two categories share a slug.
C4_UniqueSlugs ==
  /\ \A a, b \in blogs : a # b => a.slug # b.slug
  /\ \A a, b \in categories : a # b => a.slug # b.slug

\* C4 witness: an admin PUT that names the slug of another blog was refused and
\* both blogs are in the store.
C4_Witness ==
  /\ req.method = "PUT" /\ req.path = "/api/admin/blogs/:id"
  /\ req.principal = Admin
  /\ Has(req.body, "slug")
  /\ Exists(blogs, req.id)
  /\ \E b \in blogs : b.id # req.id /\ b.slug = req.body.slug
  /\ res.status = 500

\* C5: an admin POST /api/admin/blogs whose slug an existing blog has is
\* answered 400 with a list of field errors, and writes no record.
C5_DuplicateSlugIs400 ==
  [][(/\ req'.method = "POST" /\ req'.path = "/api/admin/blogs"
      /\ req'.principal = Admin /\ req'.file # NoFile
      /\ Has(req'.body, "slug")
      /\ \E b \in blogs : b.slug = req'.body.slug)
        => (res'.status = 400 /\ res'.errors # {} /\ blogs' = blogs)]_vars

\* C6: every stored skill has a percentage from 0 to 100 and a category among
\* frontend, backend, database, tools, cloud.
C6_SkillRange ==
  \A s \in skills : s.percentage \in 0..100 /\ s.category \in SkillCategories

\* C7: an admin POST /api/admin/skills whose percentage is outside 0..100 is
\* answered 400 and creates no skill.
C7_PercentageRejected ==
  [][(/\ req'.method = "POST" /\ req'.path = "/api/admin/skills"
      /\ req'.principal = Admin
      /\ Has(req'.body, "percentage") /\ req'.body.percentage \notin 0..100)
        => (res'.status = 400 /\ skills' = skills)]_vars

Without(o, K) == [k \in DOMAIN o \ K |-> o[k]]
TitleOnly(r, path) ==
  /\ r.method = "PUT" /\ r.path = path /\ r.principal = Admin
  /\ DOMAIN r.body = {"title"} /\ r.file = NoFile
\* the row with id i keeps every field but title (and those of K)
OnlyTitleChanged(rows, rowsNext, i, title, K) ==
  Exists(rows, i) =>
    /\ Exists(rowsNext, i)
    /\ Without(RowOf(rowsNext, i), K)
         = Without(Spread(RowOf(rows, i), [title |-> title]), K)

\* C8: an admin PUT on a project, a blog or a video whose body holds the title
\* only leaves every other field of the record as it was, featured and
\* published included; a blog's updatedAt is the one exception.
C8_PartialUpdate ==
  [][/\ TitleOnly(req', "/api/admin/projects/:id")
          => OnlyTitleChanged(projects, projects', req'.id, req'.body.title, {})
     /\ TitleOnly(req', "/api/admin/blogs/:id")
          => OnlyTitleChanged(blogs, blogs', req'.id, req'.body.title, {"updatedAt"})
     /\ TitleOnly(req', "/api/admin/videos/:id")
          => OnlyTitleChanged(videos, videos', req'.id, req'.body.title, {})]_vars

\* a record the resource's schema refuses: a required field is missing, an
\* enumerated field holds another value, or a percentage is outside 0..100
Refused(schema, record) ==
  \/ ZodIssues(schema, record) # {}
  \/ Has(record, "percentage") /\ record.percentage \notin 0..100
\* a PUT on path whose body laid over the stored row gives a refused record
\* is answered 400 and leaves the rows as they were
UpdateValidated(r, reply, path, schema, rows, rowsNext) ==
  (/\ r.method = "PUT" /\ r.path = path /\ r.principal = Admin
   /\ Exists(rows, r.id)
   /\ Refused(schema, Spread(RowOf(rows, r.id), r.body)))
     => (reply.status = 400 /\ rowsNext = rows)

\* C9: every update handler checks the stored record overlaid with the
\* request's fields against the resource's schema; when the check fails the
\* answer is 400 and the record is unchanged.
C9_UpdateValidates ==
  [][/\ UpdateValidated(req', res', "/api/admin/projects/:id", insertProjectSchema,
                        projects, projects')
     /\ UpdateValidated(req', res', "/api/admin/skills/:id", insertSkillSchema,
                        skills, skills')
     /\ UpdateValidated(req', res', "/api/admin/categories/:id", insertCategorySchema,
                        categories, categories')
     /\ UpdateValidated(req', res', "/api/admin/blogs/:id", insertBlogSchema,
                        blogs, blogs')
     /\ UpdateValidated(req', res', "/api/admin/videos/:id", insertVideoSchema,
                        videos, videos')]_vars

MarkRead(r, i) ==
  /\ r.method = "PUT" /\ r.path = "/api/admin/contacts/:id/read"
  /\ r.principal = Admin /\ r.id = i

\* C10: a contact's read flag never goes from true back to false; it changes
\* only by an admin PUT /api/admin/contacts/:id/read on that contact, which
\* sets it to true, and repeating the request leaves it true.
C10_ReadMonotonic ==
  [][\A c \in contacts : \A d \in contacts' :
       d.id = c.id =>
         /\ c.read => d.read
         /\ d.read # c.read => MarkRead(req', c.id)
         /\ MarkRead(req', c.id) => (d.read /\ res'.status = 200)]_vars

\* C10 witness: a contact is read, the clock has advanced since it was
\* created, and an admin's request to mark it read was answered 200.
C10_Witness ==
  /\ MarkRead(req, req.id)
  /\ res.status = 200
  /\ res.data # <<>>
  /\ \E c \in contacts : c.id = req.id /\ c.read /\ c.createdAt < now
  /\ \E c \in contacts : c.id # req.id /\ ~c.read

ContactFields == {"name", "email", "subject", "message"}

\* C11: POST /api/contacts with a valid body is answered 201 whoever the caller
\* is, and the contact it creates has read = false whatever the body holds; a
\* request of a caller who is not an admin removes and changes no contact.
C11_PublicAppendOnly ==
  [][/\ (/\ req'.method = "POST" /\ req'.path = "/api/contacts"
         /\ ContactFields \subseteq DOMAIN req'.body)
          => /\ res'.status = 201
             /\ Len(res'.data) = 1
             /\ ~res'.data[1].read
             /\ res'.data[1] \notin contacts
             /\ contacts' = contacts \cup {res'.data[1]}
     /\ NonAdmin(req'.principal) => contacts \subseteq contacts']_vars

\* C11 witness: an anonymous POST whose body carries read = true was answered
\* 201 and the stored contact is unread.
C11_Witness ==
  /\ req.method = "POST" /\ req.path = "/api/contacts"
  /\ req.principal = Anonymous
  /\ Has(req.body, "read") /\ req.body.read
  /\ res.status = 201
  /\ res.data[1] \in contacts /\ ~res.data[1].read

\* C12: every blog has updatedAt >= createdAt; a successful update leaves
\* updatedAt at the server's current time; no request moves createdAt.
C12_UpdatedAtFresh ==
  [][/\ \A b \in blogs' : b.updatedAt >= b.createdAt
     /\ (/\ req'.method = "PUT" /\ req'.path = "/api/admin/blogs/:id"
         /\ res'.status = 200)
          => \E b \in blogs' : b.id = req'.id /\ b.updatedAt = now'
     /\ \A b \in blogs : \A c \in blogs' : c.id = b.id => c.createdAt = b.createdAt]_vars

References(b, i) == Has(b, "categoryId") /\ b.categoryId = i

\* C16: an admin DELETE of a category that blogs reference is answered 200,
\* removes that category alone and leaves every blog as it was, its
\* categoryId included.
C16_NoCascade ==
  [][(/\ req'.method = "DELETE" /\ req'.path = "/api/admin/categories/:id"
      /\ req'.principal = Admin
      /\ Exists(categories, req'.id)
      /\ \E b \in blogs : References(b, req'.id))
        => /\ res'.status = 200
           /\ categories' = categories \ {RowOf(categories, req'.id)}
           /\ blogs' = blogs]_vars

DeletePaths ==
  {"/api/admin/projects/:id", "/api/admin/skills/:id", "/api/admin/categories/:id",
   "/api/admin/blogs/:id", "/api/admin/videos/:id", "/api/admin/contacts/:id"}
\* an admin DELETE on path: 200 and the row is gone when it was stored, 404
\* and nothing changes when it was not
DeleteOnce(r, reply, path, rows, rowsNext) ==
  (r.method = "DELETE" /\ r.path = path /\ r.principal = Admin) =>
     IF Exists(rows, r.id)
     THEN reply.status = 200 /\ rowsNext = rows \ {RowOf(rows, r.id)}
     ELSE reply.status = 404 /\ rowsNext = rows

\* C13: for each kind, the delete of a stored id is answered 200 and removes
\* the record; the delete of an id that is not stored (a second delete) is
\* answered 404 and the record stays absent.
C13_DeleteTwice ==
  [][/\ DeleteOnce(req', res', "/api/admin/projects/:id", projects, projects')
     /\ DeleteOnce(req', res', "/api/admin/skills/:id", skills, skills')
     /\ DeleteOnce(req', res', "/api/admin/categories/:id", categories, categories')
     /\ DeleteOnce(req', res', "/api/admin/blogs/:id", blogs, blogs')
     /\ DeleteOnce(req', res', "/api/admin/videos/:id", videos, videos')
     /\ DeleteOnce(req', res', "/api/admin/contacts/:id", contacts, contacts')]_vars

PublishedBlogs == {b \in blogs : Published(b)}
Least(n, m) == IF n < m THEN n ELSE m

\* C15: GET /api/blogs/featured returns at most 3 blogs, all published, in
\* descending createdAt order, and no published blog left out is newer than
\* one returned; the caller makes no difference.
C15_FeaturedTop3 ==
  (req.method = "GET" /\ req.path = "/api/blogs/featured") =>
     LET d == res.data
     IN  /\ res.status = 200
         /\ Len(d) = Least(3, Cardinality(PublishedBlogs))
         /\ \A i \in 1..Len(d) : d[i] \in PublishedBlogs
         /\ \A i, j \in 1..Len(d) : i < j => (d[i] # d[j] /\ d[i].createdAt >= d[j].createdAt)
         /\ \A b \in PublishedBlogs \ Range(d) :
              \A i \in 1..Len(d) : b.createdAt <= d[i].createdAt

\* C15 witness: more than three published blogs are stored, not all created
\* at one time, and an anonymous caller got three of them.
C15_Witness ==
  /\ req.method = "GET" /\ req.path = "/api/blogs/featured"
  /\ req.principal = Anonymous
  /\ Cardinality(PublishedBlogs) > 3
  /\ \E a, b \in PublishedBlogs : a.createdAt < b.createdAt
  /\ Len(res.data) = 3

MultipartPaths ==
  {"/api/admin/projects", "/api/admin/projects/:id",
   "/api/admin/blogs", "/api/admin/blogs/:id"}
\* a file that is not JPEG, PNG or WEBP, or is larger than 5MB
BadUpload(file) ==
  /\ file # NoFile
  /\ \/ Mimetype[file] \notin {"image/jpeg", "image/jpg", "image/png", "image/webp"}
     \/ FileSize[file] > 5

\* C17: a request whose upload is not JPEG/PNG/WEBP or exceeds 5MB is refused
\* and makes no entity-store call: projects and blogs are unchanged.
C17_RejectedUpload ==
  [][(req'.path \in MultipartPaths /\ BadUpload(req'.file))
       => /\ res'.status >= 400
          /\ res'.calls = 0
          /\ projects' = projects /\ blogs' = blogs /\ seq' = seq]_vars

\* C17 witness: an admin's POST of a complete project with an image over 5MB
\* was refused, and so was a PUT on a stored blog with a GIF.
C17_Witness ==
  \/ /\ req.method = "POST" /\ req.path = "/api/admin/projects"
     /\ req.principal = Admin /\ req.file = "big.png"
     /\ {"title", "description"} \subseteq DOMAIN req.body
     /\ res.status = 500 /\ res.message = "File too large"
     /\ \E b \in blogs : b.imageUrl = <<"/uploads/", "a.png">>
  \/ /\ req.method = "PUT" /\ req.path = "/api/admin/blogs/:id"
     /\ req.principal = Admin /\ req.file = "a.gif"
     /\ Exists(blogs, req.id)
     /\ Exists(projects, 1)
     /\ res.status = 500

\* C18: a caller who is not an admin gets the same 403 "Forbidden" from every
\* /api/admin endpoint, whatever the id, the body and the attached file.
C18_OpaqueForbidden ==
  [][(req'.path \in AdminPaths /\ NonAdmin(req'.principal))
       => res' = [status |-> 403, message |-> "Forbidden", data |-> <<>>,
                  errors |-> {}, calls |-> 0]]_vars

\* an admin PUT or DELETE on path that names no stored row is answered 404 and
\* changes nothing
MissingIs404(r, reply, path, rows) ==
  (/\ r.method \in {"PUT", "DELETE"} /\ r.path = path /\ r.principal = Admin
   /\ ~Exists(rows, r.id))
     => (reply.status = 404 /\ tables' = tables /\ seq' = seq)

\* C19: an admin PUT or DELETE on an id that matches no record is answered 404,
\* creates no record and changes no record.
C19_MissingIs404 ==
  [][/\ MissingIs404(req', res', "/api/admin/projects/:id", projects)
     /\ MissingIs404(req', res', "/api/admin/skills/:id", skills)
     /\ MissingIs404(req', res', "/api/admin/categories/:id", categories)
     /\ MissingIs404(req', res', "/api/admin/blogs/:id", blogs)
     /\ MissingIs404(req', res', "/api/admin/videos/:id", videos)
     /\ MissingIs404(req', res', "/api/admin/contacts/:id/read", contacts)
     /\ MissingIs404(req', res', "/api/admin/contacts/:id", contacts)]_vars

\* s lists every row of rows once
Lists(s, rows) ==
  /\ Len(s) = Cardinality(rows)
  /\ Range(s) = rows
Ascending(s, column) ==
  \A i, j \in 1..Len(s) : i < j => s[i][column] <= s[j][column]
Descending(s, column) ==
  \A i, j \in 1..Len(s) : i < j => s[i][column] >= s[j][column]
AscendingByName(s) ==
  \A i, j \in 1..Len(s) : i < j => Collation[s[i].name] <= Collation[s[j].name]
\* the rows a list request without a filter was answered with
Listed(path) ==
  req.method = "GET" /\ req.path = path /\ req.query = NoQuery /\ res.status = 200

\* C20: getAll returns every record of the collection: projects, blogs and
\* contacts by createdAt descending, skills and videos by order ascending,
\* categories by name ascending.  No route calls getAllBlogs without its
\* argument, so the blogs are read from the storage; the others from the answer
\* of their list route.
C20_GetAllOrdered ==
  /\ \A s \in getAllBlogs(<<>>) : Lists(s, blogs) /\ Descending(s, "createdAt")
  /\ Listed("/api/projects") => (Lists(res.data, projects) /\ Descending(res.data, "createdAt"))
  /\ Listed("/api/admin/contacts")
       => (Lists(res.data, contacts) /\ Descending(res.data, "createdAt"))
  /\ Listed("/api/skills") => (Lists(res.data, skills) /\ Ascending(res.data, "order"))
  /\ Listed("/api/videos") => (Lists(res.data, videos) /\ Ascending(res.data, "order"))
  /\ Listed("/api/categories") => (Lists(res.data, categories) /\ AscendingByName(res.data))

\* C20 witness: two skills with different orders are stored and GET /api/skills
\* listed them.
C20_Witness ==
  /\ Listed("/api/skills")
  /\ Len(res.data) = 2
  /\ res.data[1].order < res.data[2].order
  /\ res.data[1].id > res.data[2].id

\* the project row after PUT /api/admin/projects/:id with body and file ran
\* from its read to its write on row, nothing else in between
PutProjectAlone(row, body, file) ==
  LET r == DbUpdate({row}, projectsTable, row.id, PutProjectData(row, body, file))
  IN  IF r.ret = <<>> THEN row ELSE r.ret[1]
\* suspended handler b writes in this step, after exactly one other update of
\* the row, whose handler had read the same row as b
SecondOfTwo(b) ==
  /\ Idle
  /\ req' = b.req
  /\ res'.status = 200
  /\ pending' = Resumed(b, TRUE)
  /\ b.writes = 1
  /\ b.first[1].alike

\* C14: two concurrent admin updates of one record leave it as one of the two
\* serial orders of the two updates would: the row stored by the second write
\* is the first update then the second, or the second then the first, applied
\* to the row both had read.
C14_LastWriterWins ==
  [][\A b \in pending :
       SecondOfTwo(b)
         => LET a == b.first[1]
                ab == PutProjectAlone(PutProjectAlone(b.existing, a.body, a.file),
                                      b.req.body, b.req.file)
                ba == PutProjectAlone(PutProjectAlone(b.existing, b.req.body, b.req.file),
                                      a.body, a.file)
            IN  /\ Len(res'.data) = 1
                /\ res'.data[1] \in {ab, ba}
                /\ res'.data[1] \in projects']_vars

IsFeatured(r) == Has(r, "featured") /\ r.featured
\* a featured list request was answered
ListedFeatured(path) ==
  req.method = "GET" /\ req.path = path /\ req.query = "true" /\ res.status = 200
\* s is what a full list of rows keeps of its featured rows
FeaturedOf(s, fullLists, rows) ==
  /\ \E full \in fullLists : s = SelectSeq(full, IsFeatured)
  /\ Range(s) = {r \in rows : IsFeatured(r)}
  /\ Range(s) \subseteq rows
  /\ \A i \in 1..Len(s) : s[i].featured = TRUE

\* C21: the featured view of projects and of videos is exactly the
\* sub-sequence of the full list whose records have featured = true: every
\* featured record is in the full list, no record with featured = false is in
\* the view.
C21_FeaturedView ==
  /\ ListedFeatured("/api/projects") => FeaturedOf(res.data, getAllProjects, projects)
  /\ ListedFeatured("/api/videos") => FeaturedOf(res.data, getAllVideos, videos)

\* C21 witness: two videos are stored, one featured and one not, and the
\* featured list was answered with the featured one alone.
C21_Witness ==
  /\ ListedFeatured("/api/videos")
  /\ Cardinality(videos) = 2
  /\ Len(res.data) = 1
  /\ \E v \in videos : ~IsFeatured(v)

CreatePaths == {"/api/admin/projects", "/api/admin/blogs"}
\* the rows of the table behind a create path
Created(path) == IF path = "/api/admin/projects" THEN projects ELSE blogs
CreatedNext(path) == IF path = "/api/admin/projects" THEN projects' ELSE blogs'

\* C22: an admin POST of a project or of a blog without an image file is
\* answered 400 and creates no record; when the POST succeeds, the stored
\* imageUrl is the reference of the uploaded file in the uploads directory.
C22_ImageRequired ==
  [][(Idle /\ req'.method = "POST" /\ req'.path \in CreatePaths)
       => /\ (isAdmin(req'.principal) /\ req'.file = NoFile)
               => /\ res'.status = 400
                  /\ res'.calls = 0
                  /\ projects' = projects /\ blogs' = blogs
          /\ res'.status = 201
               => /\ req'.file # NoFile
                  /\ Len(res'.data) = 1
                  /\ res'.data[1].imageUrl = <<"/uploads/", req'.file>>
                  /\ CreatedNext(req'.path) = Created(req'.path) \cup {res'.data[1]}
                  /\ res'.data[1] \notin Created(req'.path)]_vars

\* C22 witness: an admin created a project with an image and the stored row
\* holds the reference of that file.
C22_Witness ==
  /\ req.method = "POST" /\ req.path = "/api/admin/projects"
  /\ res.status = 201
  /\ req.file = "a.png"
  /\ \E r \in projects : r = res.data[1] /\ r.imageUrl = <<"/uploads/", "a.png">>

GenericMessages ==
  {"Failed to fetch categories", "Failed to create category",
   "Failed to update category", "Failed to delete category",
   "Failed to fetch blogs", "Failed to fetch featured blogs", "Failed to fetch blog",
   "Failed to create blog post", "Failed to update blog post",
   "Failed to delete blog post"}
\* the handlers that read the record before they write it
ReadFirstPaths ==
  {"/api/admin/projects/:id", "/api/admin/blogs/:id", "/api/admin/videos/:id"}
\* the store calls of a handler up to and with its first write
CallsToWrite(r) == IF r.method = "PUT" /\ r.path \in ReadFirstPaths THEN 2 ELSE 1

ContactsListed(r, reply, query) ==
  /\ r.method = "GET" /\ r.path = "/api/admin/contacts" /\ r.query = query
  /\ isAdmin(r.principal)
  /\ reply.status = 200

\* C24: the unread list of an admin is exactly the contacts with read = false,
\* by createdAt descending; a contact marked read stays read, so it is in no
\* later unread list, and it is in every unfiltered list while it is stored.
C24_UnreadList ==
  [][/\ ContactsListed(req', res', "true")
          => /\ Lists(res'.data, {c \in contacts' : c.read = FALSE})
             /\ Descending(res'.data, "createdAt")
     /\ ContactsListed(req', res', NoQuery) => Lists(res'.data, contacts')
     /\ \A c \in contacts :
          /\ (MarkRead(req', c.id) /\ res'.status = 200)
               => \E d \in contacts' : d.id = c.id /\ d.read
          /\ c.read => \A d \in contacts' : d.id = c.id => d.read]_vars

\* C24 witness: of two contacts one was marked read, and the unread list was
\* answered with the other one alone.
C24_Witness ==
  /\ ContactsListed(req, res, "true")
  /\ Cardinality(contacts) = 2
  /\ Len(res.data) = 1
  /\ \E c \in contacts : c.read /\ c # res.data[1]

\* C25: a POST or PUT of a project or of a blog that is answered 403 leaves
\* the uploads directory as it was.
C25_ForbiddenWritesNoFile ==
  [][(Idle /\ req'.path \in MultipartPaths /\ res'.status = 403)
       => uploads' = uploads]_vars

\* C26: an admin PUT of a project interleaved with a DELETE of it answers with
\* a success status only with the updated record; when the record is gone as
\* the write is applied the PUT answers 404, and the record is not re-created.
C26_PutAfterDelete ==
  [][(/\ Idle
      /\ req'.method = "PUT" /\ req'.path = "/api/admin/projects/:id"
      /\ isAdmin(req'.principal) /\ upload(req'.file) = "ok")
       => /\ res'.status \in 200..299
               => /\ Len(res'.data) = 1
                  /\ res'.data[1].id = req'.id
                  /\ res'.data[1] \in projects'
          /\ ~Exists(projects, req'.id)
               => /\ res'.status = 404
                  /\ ~Exists(projects', req'.id)]_vars

\* the ids of rows, and the createdAt of each id
IdsOf(rows) == {r.id : r \in rows}
StampsOf(rows) == {<<r.id, r.createdAt>> : r \in {x \in rows : Has(x, "createdAt")}}
ServerFieldsKept(rows, rowsNext) ==
  /\ IdsOf(rowsNext) = IdsOf(rows)
  /\ StampsOf(rowsNext) = StampsOf(rows)

\* C27: the fields the server assigns are immutable through the API: a PUT,
\* whatever its body, leaves the id and the createdAt of every record as they
\* were, and a project or blog an admin created has the authorId of that admin.
C27_ServerFields ==
  [][/\ (Idle /\ req'.method = "PUT")
          => /\ ServerFieldsKept(projects, projects')
             /\ ServerFieldsKept(skills, skills')
             /\ ServerFieldsKept(categories, categories')
             /\ ServerFieldsKept(blogs, blogs')
             /\ ServerFieldsKept(videos, videos')
             /\ ServerFieldsKept(contacts, contacts')
     /\ (Idle /\ req'.method = "POST" /\ req'.path \in CreatePaths /\ res'.status = 201)
          => Has(res'.data[1], "authorId")]_vars

\* C28: an admin PUT of a video stores the supplied thumbnailUrl when one is
\* supplied, otherwise the YouTube thumbnail of the new videoId when the
\* supplied videoId differs from the stored one, otherwise the existing
\* thumbnailUrl; and it stores the supplied views when supplied, the existing
\* views otherwise.
C28_VideoUpdate ==
  [][(/\ Idle
      /\ req'.method = "PUT" /\ req'.path = "/api/admin/videos/:id"
      /\ res'.status = 200)
       => LET body == req'.body
              old == RowOf(videos, req'.id)
              new == RowOf(videos', req'.id)
          IN  /\ Exists(videos, req'.id) /\ Exists(videos', req'.id)
              /\ new.thumbnailUrl =
                   IF Has(body, "thumbnailUrl") THEN body.thumbnailUrl
                   ELSE IF Has(body, "videoId") /\ body.videoId # old.videoId
                        THEN <<"https://img.youtube.com/vi/", body.videoId, "/mqdefault.jpg">>
                        ELSE old.thumbnailUrl
              /\ new.views = IF Has(body, "views") THEN body.views ELSE old.views]_vars

\* C29: a valid submission of the home page's contact form reaches the handler
\* that creates a contact: it is answered 201 and appends exactly one contact,
\* which holds the values of the form.
C29_FormReachesHandler ==
  [][(/\ Idle
      /\ req'.method = "POST" /\ req'.path = FormPath
      /\ req'.body \in FormValues)
       => /\ res'.status = 201
          /\ \E c \in contacts' :
               /\ c \notin contacts
               /\ contacts' = contacts \cup {c}
               /\ \A k \in ContactFields : c[k] = req'.body[k]]_vars

\* C30: the start-up of the store connection makes at most two attempts: a
\* failed first attempt does not end the process and is followed, 5 seconds
\* later, by one retry; a failed retry ends the process with code 1; a
\* successful attempt schedules nothing more.
C30_ConnectionRetry ==
  /\ [](boot.attempts \in {1, 2})
  /\ [](boot.state = "exited" => (boot.attempts = 2 /\ boot.code = 1))
  /\ [][/\ boot'.attempts # boot.attempts
            => /\ boot.attempts = 1 /\ boot'.attempts = 2
               /\ boot.state = "waiting" /\ boot.timer = 0
        /\ (boot.state = "connecting" /\ boot'.state = "waiting") => boot'.timer = 5
        /\ (boot.state = "waiting" /\ boot' # boot)
            => \/ (boot'.state = "waiting" /\ boot'.timer = boot.timer - 1)
               \/ (boot'.state = "connecting" /\ boot.timer = 0)
        /\ (boot.state = "connecting" /\ boot.attempts = 2 /\ boot' # boot)
            => boot'.state \in {"connected", "exited"}
        /\ boot.state \in {"connected", "exited"} => boot' = boot]_vars
  /\ (boot.state = "waiting") ~> (boot.attempts = 2)

\* C30 witness: the first attempt failed, the retry was made after the delay
\* and failed too, and the process has exited with code 1.
C30_Witness ==
  /\ boot.state = "exited" /\ boot.code = 1 /\ boot.attempts = 2
  /\ boot.timer = 0

====
